---- MODULE Spec2Model ----
(***************************************************************************)
(* Model of the compose-file rule engine of quibble, src/compose/rules.rs. *)
(*                                                                         *)
(* A ComposeFile is a path plus a parsed document (version, services).     *)
(* Each Rule appends alerts to a sink; 'checks' runs the rules in a fixed  *)
(* order over one document and returns the sink.                           *)
(*                                                                         *)
(* Strings are TLA+ strings; starts_with / ends_with / contains / format!  *)
(* are computed character by character with Len, SubSeq and \o.            *)
(* Option<T> is a sequence of length 0 (None) or 1 (Some(v)).              *)
(* 'services' is the sequence of the map's values in '.values()' order.    *)
(* A backquote inside a message of the source is written ' (a TLA+ string  *)
(* cannot hold a backquote).                                               *)
(***************************************************************************)
EXTENDS Naturals, Sequences, FiniteSets

VARIABLES compose_file, alerts, panicked, op

vars == <<compose_file, alerts, panicked, op>>

(***************************************************************************)
(* Bounds                                                                  *)
(***************************************************************************)
MaxServices == 2

(***************************************************************************)
(* Option and string primitives (Rust std)                                 *)
(***************************************************************************)
None == <<>>

Some(v) == <<v>>

is_some(o) == Len(o) = 1

unwrap(o) == o[1]

starts_with(s, pat) ==
    /\ Len(pat) <= Len(s)
    /\ SubSeq(s, 1, Len(pat)) = pat

ends_with(s, pat) ==
    /\ Len(pat) <= Len(s)
    /\ SubSeq(s, Len(s) - Len(pat) + 1, Len(s)) = pat

contains(s, pat) ==
    \E i \in 1..(Len(s) + 1) :
        /\ i + Len(pat) - 1 <= Len(s)
        /\ SubSeq(s, i, i + Len(pat) - 1) = pat

\* str::find: index of the first occurrence of the character c, 0 when absent
find(s, c) ==
    IF contains(s, c)
    THEN CHOOSE i \in 1..Len(s) :
            /\ SubSeq(s, i, i) = c
            /\ \A j \in 1..(i - 1) : SubSeq(s, j, j) # c
    ELSE 0

\* str::rfind: index of the last occurrence of the character c, 0 when absent
rfind(s, c) ==
    IF contains(s, c)
    THEN CHOOSE i \in 1..Len(s) :
            /\ SubSeq(s, i, i) = c
            /\ \A j \in (i + 1)..Len(s) : SubSeq(s, j, j) # c
    ELSE 0

(***************************************************************************)
(* Alert model (crate::security)                                           *)
(***************************************************************************)
RuleID_None == [kind |-> "None", value |-> ""]

RuleID_Cwe(code) == [kind |-> "Cwe", value |-> code]

RuleID_Owasp(code) == [kind |-> "Owasp", value |-> code]

Severity == {"Information", "Low", "Medium", "High", "Critical"}

\* AlertLocation { path, ..Default::default() }: line and column unset
AlertLocation(path) == [path |-> path, line |-> None, column |-> None]

\* AlertLocation::default(): no path is known to a Default implementation
DefaultAlertLocation == AlertLocation("")

\* Alert::default(): id None, severity Low, default location
DefaultAlert ==
    [id |-> RuleID_None, details |-> "", severity |-> "Low",
     path |-> DefaultAlertLocation]

Alert(id, details, severity, location) ==
    [id |-> id, details |-> details, severity |-> severity, path |-> location]

(***************************************************************************)
(* Image reference parser (Service::parse_image)                           *)
(***************************************************************************)
Whitespace == {" ", "\t", "\n"}

InvalidImage == [ok |-> FALSE]

\* step 1: split off an optional trailing @<digest>
split_digest(image) ==
    LET at == find(image, "@")
    IN IF at = 0
       THEN [rest |-> image, digest |-> None]
       ELSE [rest   |-> SubSeq(image, 1, at - 1),
             digest |-> Some(SubSeq(image, at + 1, Len(image)))]

\* step 2: split at the last ':' that is not part of a host:port
split_tag(rest) ==
    LET colon == rfind(rest, ":")
    IN IF colon > 0 /\ ~contains(SubSeq(rest, colon + 1, Len(rest)), "/")
       THEN [name_part |-> SubSeq(rest, 1, colon - 1),
             tag       |-> SubSeq(rest, colon + 1, Len(rest))]
       ELSE [name_part |-> rest, tag |-> "latest"]

\* whether the text before the first '/' names a registry host
is_registry_host(left) ==
    \/ contains(left, ".")
    \/ contains(left, ":")
    \/ left = "localhost"

\* step 3: split the name at the first '/'
split_registry(name_part) ==
    LET slash == find(name_part, "/")
    IN IF slash > 0 /\ is_registry_host(SubSeq(name_part, 1, slash - 1))
       THEN [instance |-> SubSeq(name_part, 1, slash - 1),
             name     |-> SubSeq(name_part, slash + 1, Len(name_part))]
       ELSE [instance |-> "docker.io", name |-> name_part]

image_reference(d, t, r) ==
    [ok |-> TRUE, instance |-> r.instance, name |-> r.name, tag |-> t.tag,
     digest |-> d.digest]

parse_image(image) ==
    IF image = "" \/ \E w \in Whitespace : contains(image, w)
    THEN InvalidImage
    ELSE image_reference(
           split_digest(image),
           split_tag(split_digest(image).rest),
           split_registry(split_tag(split_digest(image).rest).name_part))

\* Display of a parsed image reference, as used by format!("{}", container)
DisplayContainer(container) ==
    container.instance \o "/" \o container.name \o ":" \o container.tag

(***************************************************************************)
(* ComposeVersion                                                          *)
(***************************************************************************)
\* mutant: the v3 arm also takes "3.6"
ComposeVersionCheck_V36(sink, file) ==
    LET version  == file.compose.version
        location == AlertLocation(file.path)
    IN CASE version = "1" ->
              Append(sink, Alert(RuleID_None, "Compose v1", "Medium", location))
         [] version \in {"2", "2.0", "2.1", "2.2", "2.3", "2.4"} ->
              Append(sink, Alert(RuleID_None, "Compose v2 used", "Low", location))
         [] version \in {"3", "3.0", "3.1", "3.2", "3.3", "3.4", "3.5", "3.6"} ->
              Append(sink, Alert(RuleID_None,
                                 "Using old Compose v3 spec, consider upgrading",
                                 "Low", location))
         [] OTHER -> sink

ComposeVersionCheck(sink, file) ==
    LET version  == file.compose.version
        location == AlertLocation(file.path)
    IN CASE version = "1" ->
              Append(sink, Alert(RuleID_None, "Compose v1", "Medium", location))
         [] version \in {"2", "2.0", "2.1", "2.2", "2.3", "2.4"} ->
              Append(sink, Alert(RuleID_None, "Compose v2 used", "Low", location))
         [] version \in {"3", "3.0", "3.1", "3.2", "3.3", "3.4", "3.5"} ->
              Append(sink, Alert(RuleID_None,
                                 "Using old Compose v3 spec, consider upgrading",
                                 "Low", location))
         [] OTHER -> sink

(***************************************************************************)
(* ContainerImages                                                         *)
(***************************************************************************)
CONTAINER_REGISTRIES == {"docker.io", "ghcr.io"}

\* The body of the loop for one service.  The result carries the sink and
\* whether parse_image().unwrap() panicked.
ContainerImagesService(sink, service, path) ==
    IF ~is_some(service.image)
    THEN [alerts |-> sink, panicked |-> FALSE]
    ELSE
      LET image == unwrap(service.image)
      IN IF contains(image, "${")
         THEN [alerts |->
                 Append(sink,
                        [DefaultAlert EXCEPT
                           !.details = "Container Image using Environment Variable: "
                                       \o image,
                           !.path = AlertLocation(path)]),
               panicked |-> FALSE]
         ELSE
           LET container == parse_image(image)
           IN IF ~container.ok
              THEN [alerts |-> sink, panicked |-> TRUE]
              ELSE
                LET a1 == Append(sink,
                            [DefaultAlert EXCEPT
                               !.details = "Container Image: "
                                           \o DisplayContainer(container),
                               !.path = AlertLocation(path)])
                    a2 == IF container.tag = "latest"
                          THEN Append(a1,
                                 [DefaultAlert EXCEPT
                                    !.details = "Container using latest / rolling release tag",
                                    !.severity = "Low",
                                    !.path = AlertLocation(path)])
                          ELSE a1
                    a3 == IF container.instance \notin CONTAINER_REGISTRIES
                          THEN Append(a2,
                                 [DefaultAlert EXCEPT
                                    !.details = "Container from unknown registry: "
                                                \o container.instance,
                                    !.severity = "Low",
                                    !.path = AlertLocation(path)])
                          ELSE a2
                IN [alerts |-> a3, panicked |-> FALSE]

RECURSIVE ContainerImagesServices(_, _, _)
ContainerImagesServices(sink, services, path) ==
    IF services = <<>>
    THEN [alerts |-> sink, panicked |-> FALSE]
    ELSE LET r == ContainerImagesService(sink, Head(services), path)
         IN IF r.panicked
            THEN r
            ELSE ContainerImagesServices(r.alerts, Tail(services), path)

ContainerImagesCheck(sink, file) ==
    ContainerImagesServices(sink, file.compose.services, file.path)

(***************************************************************************)
(* DockerSocket                                                            *)
(***************************************************************************)
\* mutant: one alert per matching volume instead of one per service
RECURSIVE DockerSocketVolumes_Each(_, _, _)
DockerSocketVolumes_Each(sink, volumes, path) ==
    IF volumes = <<>>
    THEN sink
    ELSE DockerSocketVolumes_Each(
           IF starts_with(Head(volumes), "/var/run/docker.sock")
           THEN Append(sink, Alert(RuleID_Owasp("D04"),
                                   "Docker Socket being passed into container",
                                   "High", AlertLocation(path)))
           ELSE sink,
           Tail(volumes), path)

DockerSocketService_PerVolume(sink, service, path) ==
    IF is_some(service.volumes)
    THEN DockerSocketVolumes_Each(sink, unwrap(service.volumes), path)
    ELSE sink

DockerSocketService(sink, service, path) ==
    IF is_some(service.volumes)
    THEN LET volumes == unwrap(service.volumes)
             result  == \E i \in 1..Len(volumes) :
                           starts_with(volumes[i], "/var/run/docker.sock")
         IN IF result
            THEN Append(sink, Alert(RuleID_Owasp("D04"),
                                    "Docker Socket being passed into container",
                                    "High", AlertLocation(path)))
            ELSE sink
    ELSE sink

RECURSIVE DockerSocketServices(_, _, _)
DockerSocketServices(sink, services, path) ==
    IF services = <<>>
    THEN sink
    ELSE DockerSocketServices(DockerSocketService(sink, Head(services), path),
                              Tail(services), path)

DockerSocketCheck(sink, file) ==
    DockerSocketServices(sink, file.compose.services, file.path)

(***************************************************************************)
(* SecurityOpts                                                            *)
(***************************************************************************)
RECURSIVE SecurityOptsEntries(_, _, _)
SecurityOptsEntries(sink, secopts, path) ==
    IF secopts = <<>>
    THEN sink
    ELSE LET secopt == Head(secopts)
             pushed == IF /\ starts_with(secopt, "no-new-privileges")
                          /\ ends_with(secopt, "false")
                       THEN Append(sink,
                              Alert(RuleID_Owasp("D04"),
                                    "Security Opts 'no-new-privileges' set to 'false'",
                                    "High", AlertLocation(path)))
                       ELSE sink
         IN SecurityOptsEntries(pushed, Tail(secopts), path)

\* mutant: an empty security_opt list is taken for an absent one
SecurityOptsService_EmptyIsAbsent(sink, service, path) ==
    IF is_some(service.security_opt) /\ unwrap(service.security_opt) # <<>>
    THEN SecurityOptsEntries(sink, unwrap(service.security_opt), path)
    ELSE Append(sink, Alert(RuleID_Owasp("D04"),
                            "Security Opts 'no-new-privileges' not set",
                            "High", AlertLocation(path)))

SecurityOptsService(sink, service, path) ==
    IF is_some(service.security_opt)
    THEN SecurityOptsEntries(sink, unwrap(service.security_opt), path)
    ELSE Append(sink, Alert(RuleID_Owasp("D04"),
                            "Security Opts 'no-new-privileges' not set",
                            "High", AlertLocation(path)))

RECURSIVE SecurityOptsServices(_, _, _)
SecurityOptsServices(sink, services, path) ==
    IF services = <<>>
    THEN sink
    ELSE SecurityOptsServices(SecurityOptsService(sink, Head(services), path),
                              Tail(services), path)

SecurityOptsCheck(sink, file) ==
    SecurityOptsServices(sink, file.compose.services, file.path)

(***************************************************************************)
(* KernalParameters                                                        *)
(***************************************************************************)
RECURSIVE KernalParametersSyscalls(_, _, _)
KernalParametersSyscalls(sink, syscalls, path) ==
    IF syscalls = <<>>
    THEN sink
    ELSE LET syscall == Head(syscalls)
             pushed  == IF starts_with(syscall, "net.ipv4.conf.all")
                        THEN Append(sink,
                               Alert(RuleID_None,
                                     "IPv4 Kernal Parameters modified: " \o syscall,
                                     "Information", AlertLocation(path)))
                        ELSE sink
         IN KernalParametersSyscalls(pushed, Tail(syscalls), path)

\* first loop over cap_add: NET_ADMIN and ALL
RECURSIVE KernalParametersCapsFirst(_, _, _)
KernalParametersCapsFirst(sink, capabilities, path) ==
    IF capabilities = <<>>
    THEN sink
    ELSE LET cap == Head(capabilities)
             a1  == IF contains(cap, "NET_ADMIN")
                    THEN Append(sink,
                           Alert(RuleID_None,
                                 "Container with high networking privileages",
                                 "Medium", AlertLocation(path)))
                    ELSE sink
             a2  == IF contains(cap, "ALL")
                    THEN Append(a1,
                           [DefaultAlert EXCEPT
                              !.details = "All capabilities are enabled",
                              !.severity = "High",
                              !.path = AlertLocation(path)])
                    ELSE a1
         IN KernalParametersCapsFirst(a2, Tail(capabilities), path)

\* second loop over cap_add: NET_ADMIN and SYS_ADMIN
RECURSIVE KernalParametersCapsSecond(_, _, _)
KernalParametersCapsSecond(sink, capabilities, path) ==
    IF capabilities = <<>>
    THEN sink
    ELSE LET cap == Head(capabilities)
             a1  == IF contains(cap, "NET_ADMIN")
                    THEN Append(sink,
                           Alert(RuleID_None,
                                 "Container with high networking privileages",
                                 "Medium", AlertLocation(path)))
                    ELSE sink
             a2  == IF contains(cap, "SYS_ADMIN")
                    THEN Append(a1,
                           Alert(RuleID_None,
                                 "Container with high system privileages",
                                 "Medium", AlertLocation(path)))
                    ELSE a1
         IN KernalParametersCapsSecond(a2, Tail(capabilities), path)

KernalParametersService(sink, service, path) ==
    LET s1 == IF is_some(service.sysctls)
              THEN KernalParametersSyscalls(
                     Append(sink, [DefaultAlert EXCEPT
                                     !.details = "Enabling extra syscalls"]),
                     unwrap(service.sysctls), path)
              ELSE sink
        s2 == IF is_some(service.cap_add)
              THEN KernalParametersCapsFirst(
                     Append(s1, [DefaultAlert EXCEPT
                                   !.details = "Using extra Kernal Parameters"]),
                     unwrap(service.cap_add), path)
              ELSE s1
        s3 == IF is_some(service.cap_add)
              THEN KernalParametersCapsSecond(
                     Append(s2, [DefaultAlert EXCEPT
                                   !.details = "Using extra Kernal Parameters"]),
                     unwrap(service.cap_add), path)
              ELSE s2
    IN s3

RECURSIVE KernalParametersServices(_, _, _)
KernalParametersServices(sink, services, path) ==
    IF services = <<>>
    THEN sink
    ELSE KernalParametersServices(
           KernalParametersService(sink, Head(services), path),
           Tail(services), path)

KernalParametersCheck(sink, file) ==
    KernalParametersServices(sink, file.compose.services, file.path)

(***************************************************************************)
(* EnvironmentVariables                                                    *)
(***************************************************************************)
\* mutant: PASSWORD and KEY are tested separately, one alert for each
EnvironmentVariablesEntry_TwoTests(sink, envvar, path) ==
    LET a1 == IF contains(envvar, "DEBUG")
              THEN Append(sink,
                     Alert(RuleID_Cwe("1244"),
                           "Debugging enabled in the container",
                           "Medium", AlertLocation(path)))
              ELSE sink
        a2 == IF contains(envvar, "PASSWORD")
              THEN Append(a1,
                     Alert(RuleID_Cwe("215"),
                           "Possible Hardcoded password: " \o envvar,
                           "High", AlertLocation(path)))
              ELSE a1
    IN IF contains(envvar, "KEY")
       THEN Append(a2,
              Alert(RuleID_Cwe("215"),
                    "Possible Hardcoded password: " \o envvar,
                    "High", AlertLocation(path)))
       ELSE a2

\* the body of the loop over the entries of environment
EnvironmentVariablesEntry(sink, envvar, path) ==
    LET a1 == IF contains(envvar, "DEBUG")
              THEN Append(sink,
                     Alert(RuleID_Cwe("1244"),
                           "Debugging enabled in the container",
                           "Medium", AlertLocation(path)))
              ELSE sink
    IN IF contains(envvar, "PASSWORD") \/ contains(envvar, "KEY")
       THEN Append(a1,
              Alert(RuleID_Cwe("215"),
                    "Possible Hardcoded password: " \o envvar,
                    "High", AlertLocation(path)))
       ELSE a1

RECURSIVE EnvironmentVariablesEntries(_, _, _)
EnvironmentVariablesEntries(sink, envvars, path) ==
    IF envvars = <<>>
    THEN sink
    ELSE EnvironmentVariablesEntries(
           EnvironmentVariablesEntry(sink, Head(envvars), path),
           Tail(envvars), path)

EnvironmentVariablesService(sink, service, path) ==
    IF is_some(service.environment)
    THEN EnvironmentVariablesEntries(sink, unwrap(service.environment), path)
    ELSE sink

RECURSIVE EnvironmentVariablesServices(_, _, _)
EnvironmentVariablesServices(sink, services, path) ==
    IF services = <<>>
    THEN sink
    ELSE EnvironmentVariablesServices(
           EnvironmentVariablesService(sink, Head(services), path),
           Tail(services), path)

EnvironmentVariablesCheck(sink, file) ==
    EnvironmentVariablesServices(sink, file.compose.services, file.path)

(***************************************************************************)
(* checks: the rule runner                                                 *)
(***************************************************************************)
\* The value of checks(compose_file): the returned Vec, or a panic raised by
\* ContainerImages, in which case nothing is returned.
checks(file) ==
    LET a1 == ComposeVersionCheck(<<>>, file)
        r2 == ContainerImagesCheck(a1, file)
        a3 == DockerSocketCheck(r2.alerts, file)
        a4 == SecurityOptsCheck(a3, file)
        a5 == KernalParametersCheck(a4, file)
    IN IF r2.panicked
       THEN [alerts |-> <<>>, panicked |-> TRUE]
       ELSE [alerts |-> a5, panicked |-> FALSE]

(***************************************************************************)
(* Inputs: the documents the parser can hand to the rules                  *)
(***************************************************************************)
EmptyService ==
    [image |-> None, volumes |-> None, security_opt |-> None,
     sysctls |-> None, cap_add |-> None, environment |-> None]

Paths == {"docker-compose.yml", "app/compose.yaml"}

Versions ==
    {"", "1", "1.0", "2", "2.0", "2.1", "2.2", "2.3", "2.4", "2.5",
     "3", "3.0", "3.1", "3.2", "3.3", "3.4", "3.5", "3.6", "3.8", "4"}

Images ==
    {"nginx", "nginx:1.25", "ghcr.io/org/app:latest", "quay.io/app:1.0",
     "localhost:5000/app", "${IMG}", "", "my app"}

Sock == "/var/run/docker.sock:/var/run/docker.sock"

SockRo == "/var/run/docker.sock:/docker.sock:ro"

Data == "./data:/var/run/docker.sock"

VolumeLists == {<<>>, <<Sock>>, <<Data>>, <<Data, Sock>>, <<Sock, SockRo>>}

SecurityOptLists ==
    {<<>>, <<"no-new-privileges:false">>, <<"no-new-privileges:true">>,
     <<"apparmor=false">>,
     <<"no-new-privileges:false", "no-new-privileges=false">>,
     <<"no-new-privileges:true", "no-new-privileges:false">>}

SysctlLists ==
    {<<>>, <<"net.ipv4.conf.all.rp_filter=1">>,
     <<"net.core.somaxconn=1024", "net.ipv4.conf.all.forwarding=1">>}

CapAddLists ==
    {<<>>, <<"NET_ADMIN", "SYS_ADMIN", "ALL">>, <<"CHOWN">>, <<"ALL">>,
     <<"SYS_ADMIN", "NET_ADMIN">>}

EnvironmentLists ==
    {<<>>, <<"API_KEY=abc", "DEBUG=1">>, <<"DB_PASSWORD_KEY=x">>, <<"TZ=UTC">>,
     <<"DEBUG_KEY=1", "MONKEY=1">>}

\* a service with every field present
FullService ==
    [image        |-> Some("ghcr.io/org/app:latest"),
     volumes      |-> Some(<<Sock>>),
     security_opt |-> Some(<<"no-new-privileges:false">>),
     sysctls      |-> Some(<<"net.ipv4.conf.all.rp_filter=1">>),
     cap_add      |-> Some(<<"NET_ADMIN">>),
     environment  |-> Some(<<"API_KEY=abc", "DEBUG=1">>)]

ImageServices == {[EmptyService EXCEPT !.image = Some(i)] : i \in Images}

VolumeServices == {[EmptyService EXCEPT !.volumes = Some(l)] : l \in VolumeLists}

SecurityOptServices ==
    {[EmptyService EXCEPT !.security_opt = Some(l)] : l \in SecurityOptLists}
    \cup {[FullService EXCEPT !.security_opt = None]}

SysctlServices == {[EmptyService EXCEPT !.sysctls = Some(l)] : l \in SysctlLists}

CapAddServices == {[EmptyService EXCEPT !.cap_add = Some(l)] : l \in CapAddLists}

EnvironmentServices ==
    {[EmptyService EXCEPT !.environment = Some(l)] : l \in EnvironmentLists}
    \cup {[FullService EXCEPT !.environment = None]}

AllServices ==
    {EmptyService, FullService} \cup ImageServices \cup VolumeServices
    \cup SecurityOptServices \cup SysctlServices \cup CapAddServices
    \cup EnvironmentServices

\* the values of a services map with at most MaxServices entries, in
\* iteration order
ServiceSeqs(S) == UNION {[1..n -> S] : n \in 0..MaxServices}

ComposeFiles(V, S) ==
    {[path |-> p, compose |-> [version |-> v, services |-> ss]] :
        p \in Paths, v \in V, ss \in ServiceSeqs(S)}

(***************************************************************************)
(* State machine: a document is loaded, then one operation is applied to   *)
(* it: the runner, or one rule alone on an empty sink.                     *)
(***************************************************************************)
InitOver(V, S) ==
    /\ compose_file \in ComposeFiles(V, S)
    /\ alerts = <<>>
    /\ panicked = FALSE
    /\ op = "load"

Init == InitOver({"1", "3.8"}, AllServices)

Checks ==
    /\ op = "load"
    /\ LET r == checks(compose_file)
       IN /\ alerts' = r.alerts
          /\ panicked' = r.panicked
    /\ op' = "checks"
    /\ UNCHANGED compose_file

RunComposeVersion ==
    /\ op = "load"
    /\ alerts' = ComposeVersionCheck(alerts, compose_file)
    /\ op' = "ComposeVersion"
    /\ UNCHANGED <<compose_file, panicked>>

RunContainerImages ==
    /\ op = "load"
    /\ LET r == ContainerImagesCheck(alerts, compose_file)
       IN /\ alerts' = r.alerts
          /\ panicked' = r.panicked
    /\ op' = "ContainerImages"
    /\ UNCHANGED compose_file

RunDockerSocket ==
    /\ op = "load"
    /\ alerts' = DockerSocketCheck(alerts, compose_file)
    /\ op' = "DockerSocket"
    /\ UNCHANGED <<compose_file, panicked>>

RunSecurityOpts ==
    /\ op = "load"
    /\ alerts' = SecurityOptsCheck(alerts, compose_file)
    /\ op' = "SecurityOpts"
    /\ UNCHANGED <<compose_file, panicked>>

RunKernalParameters ==
    /\ op = "load"
    /\ alerts' = KernalParametersCheck(alerts, compose_file)
    /\ op' = "KernalParameters"
    /\ UNCHANGED <<compose_file, panicked>>

RunEnvironmentVariables ==
    /\ op = "load"
    /\ alerts' = EnvironmentVariablesCheck(alerts, compose_file)
    /\ op' = "EnvironmentVariables"
    /\ UNCHANGED <<compose_file, panicked>>

Next ==
    \/ Checks
    \/ RunComposeVersion
    \/ RunContainerImages
    \/ RunDockerSocket
    \/ RunSecurityOpts
    \/ RunKernalParameters
    \/ RunEnvironmentVariables

Spec == Init /\ [][Next]_vars

\* every version string, few services
InitVersion == InitOver(Versions, {EmptyService, FullService})

SpecVersion == InitVersion /\ [][Next]_vars

InitDockerSocket == InitOver({"3.8"}, {EmptyService, FullService} \cup VolumeServices)

SpecDockerSocket == InitDockerSocket /\ [][Next]_vars

InitSecurityOpts == InitOver({"3.8"}, {EmptyService, FullService} \cup SecurityOptServices)

SpecSecurityOpts == InitSecurityOpts /\ [][Next]_vars

InitEnvironment == InitOver({"3.8"}, {EmptyService, FullService} \cup EnvironmentServices)

SpecEnvironment == InitEnvironment /\ [][Next]_vars

(***************************************************************************)
(* Properties                                                              *)
(***************************************************************************)
services == compose_file.compose.services

location == AlertLocation(compose_file.path)

RECURSIVE ConcatAll(_)
ConcatAll(seqs) ==
    IF seqs = <<>> THEN <<>> ELSE Head(seqs) \o ConcatAll(Tail(seqs))

\* the concatenation, in service order, of what Emit gives for each service
PerService(Emit(_)) == ConcatAll([i \in 1..Len(services) |-> Emit(services[i])])

Count(seq, Test(_)) == Cardinality({i \in 1..Len(seq) : Test(seq[i])})

\* ---- C5 -------------------------------------------------------------
NotSetAlert ==
    Alert(RuleID_Owasp("D04"), "Security Opts 'no-new-privileges' not set",
          "High", location)

SetToFalseAlert ==
    Alert(RuleID_Owasp("D04"), "Security Opts 'no-new-privileges' set to 'false'",
          "High", location)

DisablesNoNewPrivileges(entry) ==
    starts_with(entry, "no-new-privileges") /\ ends_with(entry, "false")

SecurityOptsExpected(service) ==
    IF service.security_opt = None
    THEN <<NotSetAlert>>
    ELSE [i \in 1..Count(unwrap(service.security_opt), DisablesNoNewPrivileges)
            |-> SetToFalseAlert]

\* C5: SecurityOpts emits, service by service, exactly one High Owasp D04
\* "not set" alert if and only if security_opt is absent; when it is present
\* (the empty list included) it emits no "not set" alert and exactly one High
\* Owasp D04 "set to false" alert per entry that starts with
\* "no-new-privileges" and ends with "false", and nothing for other entries.
\* The same counts hold of the list the runner returns.
C5_SecurityOpts ==
    /\ op = "SecurityOpts" => alerts = PerService(SecurityOptsExpected)
    /\ op = "checks" /\ ~panicked =>
         /\ Count(alerts, LAMBDA a : a = NotSetAlert)
              = Count(services, LAMBDA sv : sv.security_opt = None)
         /\ Count(alerts, LAMBDA a : a = SetToFalseAlert)
              = Len(PerService(SecurityOptsExpected))
                  - Count(services, LAMBDA sv : sv.security_opt = None)

\* a service without security_opt beside one whose list holds an entry that
\* disables no-new-privileges and one that does not
C5_Witness ==
    /\ op = "SecurityOpts"
    /\ \E i, j \in 1..Len(services) :
         /\ services[i].security_opt = None
         /\ services[j].security_opt
              = Some(<<"no-new-privileges:true", "no-new-privileges:false">>)
    /\ alerts # <<>>

\* ---- C6 -------------------------------------------------------------
DockerSocketAlert ==
    Alert(RuleID_Owasp("D04"), "Docker Socket being passed into container",
          "High", location)

PassesDockerSocket(service) ==
    /\ service.volumes # None
    /\ \E i \in 1..Len(unwrap(service.volumes)) :
         starts_with(unwrap(service.volumes)[i], "/var/run/docker.sock")

DockerSocketExpected(service) ==
    IF PassesDockerSocket(service) THEN <<DockerSocketAlert>> ELSE <<>>

\* C6: DockerSocket emits, service by service, exactly one High Owasp D04
\* "Docker Socket being passed into container" alert when at least one volume
\* entry starts with "/var/run/docker.sock", however many do, and none when
\* volumes is absent or no entry matches: at most one alert per service.
C6_DockerSocket ==
    /\ op = "DockerSocket" =>
         /\ alerts = PerService(DockerSocketExpected)
         /\ Len(alerts) <= Len(services)
    /\ op = "checks" /\ ~panicked =>
         Count(alerts, LAMBDA a : a = DockerSocketAlert)
           = Count(services, PassesDockerSocket)

\* a service with two matching volume entries gave one alert
C6_Witness ==
    /\ op = "DockerSocket"
    /\ Len(services) = 1
    /\ services[1].volumes = Some(<<Sock, SockRo>>)
    /\ Len(alerts) = 1

\* ---- C8 -------------------------------------------------------------
ComposeVersionExpected ==
    LET version == compose_file.compose.version
    IN IF version = "1"
       THEN <<Alert(RuleID_None, "Compose v1", "Medium", location)>>
       ELSE IF version \in {"2", "2.0", "2.1", "2.2", "2.3", "2.4"}
       THEN <<Alert(RuleID_None, "Compose v2 used", "Low", location)>>
       ELSE IF version \in {"3", "3.0", "3.1", "3.2", "3.3", "3.4", "3.5"}
       THEN <<Alert(RuleID_None, "Using old Compose v3 spec, consider upgrading",
                    "Low", location)>>
       ELSE <<>>

\* C8: ComposeVersion emits at most one alert per document, always with id
\* None: Medium "Compose v1" for "1", Low "Compose v2 used" for 2 and 2.0 to
\* 2.4, Low "Using old Compose v3 spec, consider upgrading" for 3 and 3.0 to
\* 3.5, and nothing for any other version (the empty one, "3.6" and later).
\* With zero services the runner returns exactly what ComposeVersion emits.
C8_ComposeVersion ==
    /\ op = "ComposeVersion" =>
         /\ alerts = ComposeVersionExpected
         /\ Len(alerts) <= 1
         /\ \A i \in 1..Len(alerts) : alerts[i].id = RuleID_None
    /\ op = "checks" /\ services = <<>> =>
         /\ ~panicked
         /\ alerts = ComposeVersionExpected

\* the runner on a document with version 3.5 and no service returned one alert
C8_Witness ==
    /\ op = "checks"
    /\ services = <<>>
    /\ compose_file.compose.version = "3.5"
    /\ Len(alerts) = 1

\* ---- C9 -------------------------------------------------------------
DebugAlert ==
    Alert(RuleID_Cwe("1244"), "Debugging enabled in the container", "Medium",
          location)

PasswordAlert(entry) ==
    Alert(RuleID_Cwe("215"), "Possible Hardcoded password: " \o entry, "High",
          location)

EnvironmentEntryExpected(entry) ==
    (IF contains(entry, "DEBUG") THEN <<DebugAlert>> ELSE <<>>)
    \o (IF contains(entry, "PASSWORD") \/ contains(entry, "KEY")
        THEN <<PasswordAlert(entry)>> ELSE <<>>)

EnvironmentExpected(service) ==
    IF service.environment = None
    THEN <<>>
    ELSE ConcatAll([i \in 1..Len(unwrap(service.environment)) |->
                      EnvironmentEntryExpected(unwrap(service.environment)[i])])

\* C9: run on a document, the EnvironmentVariables rule emits, service by
\* service and entry by entry, one Medium Cwe 1244 "Debugging enabled in the
\* container" alert if the entry contains "DEBUG", then one High Cwe 215
\* "Possible Hardcoded password: <entry>" alert if it contains "PASSWORD" or
\* "KEY" (one alert even when it contains both), and nothing otherwise; a
\* service without environment yields nothing.
C9_EnvironmentVariables ==
    op = "EnvironmentVariables" => alerts = PerService(EnvironmentExpected)

\* an entry holding both PASSWORD and KEY gave a single alert
C9_Witness ==
    /\ op = "EnvironmentVariables"
    /\ Len(services) = 1
    /\ services[1].environment = Some(<<"DB_PASSWORD_KEY=x">>)
    /\ alerts = <<PasswordAlert("DB_PASSWORD_KEY=x")>>

\* ---- C1 -------------------------------------------------------------
\* C1: checks(compose_file) returns exactly the concatenation, in this order,
\* of the alerts appended by ComposeVersion, ContainerImages, DockerSocket,
\* SecurityOpts, KernelCapabilities and EnvironmentVariables: all six rules
\* run, each once, and no rule's outcome stops a later rule.
C1_AllSixRulesInOrder ==
    op = "checks" =>
      /\ ~panicked
      /\ alerts = ComposeVersionCheck(<<>>, compose_file)
                  \o ContainerImagesCheck(<<>>, compose_file).alerts
                  \o DockerSocketCheck(<<>>, compose_file)
                  \o SecurityOptsCheck(<<>>, compose_file)
                  \o KernalParametersCheck(<<>>, compose_file)
                  \o EnvironmentVariablesCheck(<<>>, compose_file)

\* ---- C2 -------------------------------------------------------------
\* C2: every alert in checks(d), whichever rule emitted it (the sysctls and
\* cap_add header alerts included), has a non-empty details string and a
\* location path equal to d.path.
C2_DetailsAndPath ==
    op = "checks" =>
      \A i \in 1..Len(alerts) :
         /\ alerts[i].details # ""
         /\ alerts[i].path.path = compose_file.path

\* ---- C3 -------------------------------------------------------------
HasInvalidImage(service) ==
    /\ service.image # None
    /\ ~contains(unwrap(service.image), "${")
    /\ ~parse_image(unwrap(service.image)).ok

IsSuffix(tail, seq) ==
    /\ Len(tail) <= Len(seq)
    /\ SubSeq(seq, Len(seq) - Len(tail) + 1, Len(seq)) = tail

\* C3: checks never fails or aborts the run: when a service's image has no
\* "${" and the image parser returns InvalidImage, ContainerImages emits no
\* alert for that service, goes on with the remaining services, and all later
\* rules still run and contribute their alerts.
C3_InvalidImageSkipped ==
    op = "checks" /\ (\E i \in 1..Len(services) : HasInvalidImage(services[i])) =>
      /\ ~panicked
      /\ IsSuffix(KernalParametersCheck(
                    SecurityOptsCheck(
                      DockerSocketCheck(<<>>, compose_file), compose_file),
                    compose_file),
                  alerts)

\* ---- C4 -------------------------------------------------------------
\* the severities of the alerts the claim gives for one cap_add entry
CapAddEntrySeverities(cap) ==
    (IF contains(cap, "NET_ADMIN") THEN <<"Medium">> ELSE <<>>)
    \o (IF contains(cap, "SYS_ADMIN") THEN <<"Medium">> ELSE <<>>)
    \o (IF contains(cap, "ALL") THEN <<"High">> ELSE <<>>)

\* the severities of the alerts of one service: the sysctls part as the rule
\* emits it, then one cap_add header and the entries' alerts
KernelCapabilitiesSeverities(service) ==
    (IF service.sysctls = None
     THEN <<>>
     ELSE <<"Low">> \o
          [i \in 1..Count(unwrap(service.sysctls),
                          LAMBDA e : starts_with(e, "net.ipv4.conf.all"))
             |-> "Information"])
    \o (IF service.cap_add = None
        THEN <<>>
        ELSE <<"Low">> \o
             ConcatAll([i \in 1..Len(unwrap(service.cap_add)) |->
                          CapAddEntrySeverities(unwrap(service.cap_add)[i])]))

\* C4: for each service with cap_add present the kernel-capabilities rule
\* emits exactly one header alert, followed, for each cap_add entry in order,
\* by one Medium alert if it contains NET_ADMIN, one Medium alert if it
\* contains SYS_ADMIN and one High alert if it contains ALL; cap_add =
\* [NET_ADMIN, SYS_ADMIN, ALL] yields exactly four alerts.  Stated on the
\* severities of the emitted alerts, so that the spelling of the messages
\* plays no part.
C4_CapAddSinglePass ==
    op = "KernalParameters" =>
      [i \in 1..Len(alerts) |-> alerts[i].severity]
        = PerService(KernelCapabilitiesSeverities)

\* ---- C7 -------------------------------------------------------------
ImageAlert(details) ==
    Alert(RuleID_None, details, "Low", location)

ContainerImagesExpected(service) ==
    IF service.image = None \/ HasInvalidImage(service)
    THEN <<>>
    ELSE LET image == unwrap(service.image)
         IN IF contains(image, "${")
            THEN <<ImageAlert("Container Image using Environment Variable: "
                              \o image)>>
            ELSE <<ImageAlert("Container Image: "
                              \o DisplayContainer(parse_image(image)))>>
                 \o (IF parse_image(image).tag = "latest"
                     THEN <<ImageAlert("Container using latest / rolling release tag")>>
                     ELSE <<>>)
                 \o (IF parse_image(image).instance \notin {"docker.io", "ghcr.io"}
                     THEN <<ImageAlert("Container from unknown registry: "
                                       \o parse_image(image).instance)>>
                     ELSE <<>>)

\* C7: ContainerImages emits, service by service: for an image holding "${"
\* exactly one "Container Image using Environment Variable: <image>" alert and
\* nothing else; otherwise one image-record alert, then one Low "latest /
\* rolling release tag" alert iff the parsed tag is "latest", then one Low
\* "unknown registry" alert iff the parsed registry is neither docker.io nor
\* ghcr.io; nothing for a service without an image.  (An image the parser
\* rejects is given no alert here, as the error-handling section has it.)
C7_ContainerImages ==
    op = "ContainerImages" =>
      /\ ~panicked
      /\ alerts = PerService(ContainerImagesExpected)

\* ---- C10 ------------------------------------------------------------
RECURSIVE IsSubsequence(_, _)
IsSubsequence(a, b) ==
    IF a = <<>> THEN TRUE
    ELSE IF b = <<>> THEN FALSE
    ELSE IF Head(a) = Head(b) THEN IsSubsequence(Tail(a), Tail(b))
    ELSE IsSubsequence(a, Tail(b))

\* the document with service s added so that it is iterated after the first k
\* services
WithService(file, s, k) ==
    [file EXCEPT !.compose.services =
        SubSeq(@, 1, k) \o <<s>> \o SubSeq(@, k + 1, Len(@))]

\* the document that holds service s alone
Only(file, s) == [file EXCEPT !.compose.services = <<s>>]

\* how many alerts each per-service rule gives for service s alone
RuleAlertsFor(file, s) ==
    <<Len(ContainerImagesCheck(<<>>, Only(file, s)).alerts),
      Len(DockerSocketCheck(<<>>, Only(file, s))),
      Len(SecurityOptsCheck(<<>>, Only(file, s))),
      Len(KernalParametersCheck(<<>>, Only(file, s))),
      Len(EnvironmentVariablesCheck(<<>>, Only(file, s)))>>

\* C10: monotonicity under addition: for every document d and every new
\* service s, every alert of checks(d) is still present, with the same
\* multiplicity and relative order, in checks(d with s added); and if s
\* triggers rule R, the result holds R's alerts for s on top of those of
\* checks(d).
C10_MonotoneUnderAddition ==
    op = "load" =>
      \A s \in AllServices : \A k \in 0..Len(services) :
         LET before == checks(compose_file)
             after  == checks(WithService(compose_file, s, k))
         IN ~before.panicked =>
              /\ ~after.panicked
              /\ IsSubsequence(before.alerts, after.alerts)
              /\ \A r \in 1..5 :
                   Len(after.alerts)
                     >= Len(before.alerts) + RuleAlertsFor(compose_file, s)[r]

====
